---- MODULE Spec2Model ----
(***************************************************************************)
(* Model of the duplicate-detection and resolution engine of               *)
(* src/duplicate_detection.py: find_duplicate_files (five grouping modes), *)
(* rank_duplicate_files (score + stable descending sort) and               *)
(* process_duplicates (report rows, move/delete of the losers, summary).   *)
(* Spec is one call of process_duplicates, SpecRank the ranking of         *)
(* generated groups, SpecMove a move run that may be repeated, with the    *)
(* output directory outside or inside the scanned tree.                    *)
(*                                                                         *)
(* A file name is a sequence of one-character strings, a directory is a    *)
(* sequence of path components, and a file is a record that carries its    *)
(* path (dir, name) together with what the disk holds at that path (size,  *)
(* DICOM tags, digest).  Group keys are sequences of characters.           *)
(***************************************************************************)
EXTENDS Integers, Sequences, FiniteSets, TLC

VARIABLES
    disk,                \* the .dcm files under root_dir
    quarantine,          \* the files of <output_dir>/duplicates when
                         \* output_dir lies outside root_dir
    output_dir,          \* argument of process_duplicates
    duplicate_dir_made,  \* os.makedirs(duplicate_dir) has run
    run,                 \* 1 for the first call, 2 for a repeated call
    failed,              \* files whose shutil.move / os.remove raised
    date_folders,        \* process_ct_duplicates: the CT date folders to visit
    total_ct_files,      \* process_ct_duplicates: counter of the scanned files
    hash_method,         \* argument of process_duplicates
    action,              \* argument of process_duplicates
    pc,                  \* position of process_duplicates
    dicom_files,         \* glob result, in the order glob returned it
    idx,                 \* index of the running loop
    patient_groups,      \* advanced mode: ordered dict patient_id -> files
    duplicates,          \* ordered dict key -> files (before the size filter)
    error_files,         \* files whose read raised during grouping
    original_duplicates, \* true_duplicates: the groups with more than one file
    ranked_duplicates,   \* ordered dict key -> ranked file infos
    report_rows,         \* rows of the report
    attempts,            \* files handed to shutil.move / os.remove, in order
    processed_count,     \* successful moves / deletes
    summary              \* the summary record, <<>> until it is written

vars == <<disk, quarantine, output_dir, duplicate_dir_made, run, failed,
          date_folders, total_ct_files,
          hash_method, action, pc, dicom_files, idx,
          patient_groups, duplicates, error_files, original_duplicates,
          ranked_duplicates, report_rows, attempts, processed_count, summary>>

----------------------------------------------------------------------------
(* Bounds of the model *)

\* most files under root_dir in one run
MaxFiles == 4
\* most members of a group handed directly to rank_duplicate_files
MaxGroup == 3
\* most `.1` tokens appended to a generated file name
MaxSuffix == 2
\* most files under root_dir in a move run that may be repeated
MaxMoveFiles == 3
\* most files under root_dir in a run over generated names
MaxNameFiles == 2
\* most files under root_dir in a run of process_ct_duplicates
MaxCTFiles == 4

----------------------------------------------------------------------------
(* Characters and strings *)

Digit == {"0", "1", "2", "3", "4", "5", "6", "7", "8", "9"}

Upper == {"A", "B", "C", "D", "E", "F", "G", "H", "I", "J", "K", "L", "M",
          "N", "O", "P", "Q", "R", "S", "T", "U", "V", "W", "X", "Y", "Z"}

Space == {" "}

Max(S) == CHOOSE x \in S : \A y \in S : y <= x

Min(S) == CHOOSE x \in S : \A y \in S : x <= y

\* s[from..]
Tail_(s, from) == SubSeq(s, from, Len(s))

\* length of the longest run of characters of class cls starting at s[k]
RECURSIVE RunLen(_, _, _)
RunLen(s, k, cls) ==
    IF k <= Len(s) /\ s[k] \in cls THEN 1 + RunLen(s, k + 1, cls) ELSE 0

\* length of the longest run of characters other than `.` starting at s[k]
RECURSIVE RunLenNotDot(_, _)
RunLenNotDot(s, k) ==
    IF k <= Len(s) /\ s[k] # "." THEN 1 + RunLenNotDot(s, k + 1) ELSE 0

\* whether literal lit occurs in s at position k
HasLiteral(s, k, lit) ==
    /\ k + Len(lit) - 1 <= Len(s)
    /\ \A j \in 1..Len(lit) : s[k + j - 1] = lit[j]

\* os.path.splitext(filename)[0] for a name without directory separators:
\* cut at the last dot, unless only dots precede it
splitext_root(filename) ==
    LET dots == {i \in 1..Len(filename) : filename[i] = "."}
    IN  IF dots = {} THEN filename
        ELSE LET d == Max(dots)
             IN  IF \E j \in 1..(d - 1) : filename[j] # "."
                 THEN SubSeq(filename, 1, d - 1)
                 ELSE filename

\* whether t, read from position k in automaton state st, is in (\.+\d+)+
\* st: 0 nothing read, 1 inside a run of dots, 2 inside a run of digits
RECURSIVE SuffixRun(_, _, _)
SuffixRun(t, k, st) ==
    IF k > Len(t) THEN st = 2
    ELSE IF t[k] = "." THEN SuffixRun(t, k + 1, 1)
    ELSE IF t[k] \in Digit /\ st \in {1, 2} THEN SuffixRun(t, k + 1, 2)
    ELSE FALSE

\* mutant of extract_base_name: the pattern is (\.+\d+)$, one token is removed
extract_base_name_OneToken(filename) ==
    LET base == splitext_root(filename)
        starts == {i \in 1..Len(base) :
                      /\ base[i] = "."
                      /\ (i = 1 \/ base[i - 1] # ".")
                      /\ LET d == RunLen(base, i, {"."})
                         IN  /\ RunLen(base, i + d, Digit) >= 1
                             /\ i + d + RunLen(base, i + d, Digit) = Len(base) + 1}
    IN  IF starts = {} THEN base ELSE SubSeq(base, 1, Min(starts) - 1)

\* extract_base_name: re.sub(r'(\.+\d+)+$', '', splitext(filename)[0]);
\* the match is the leftmost start from which the rest of the name matches
extract_base_name(filename) ==
    LET base == splitext_root(filename)
        starts == {i \in 1..Len(base) : SuffixRun(Tail_(base, i), 1, 0)}
    IN  IF starts = {} THEN base ELSE SubSeq(base, 1, Min(starts) - 1)

\* end of the match of ^[A-Z]+\.\d+\. at the start of filename, 0 if none
SeriesHead(filename) ==
    LET u == RunLen(filename, 1, Upper)
        d == RunLen(filename, u + 2, Digit)
    IN  IF /\ u >= 1
           /\ HasLiteral(filename, u + 1, <<".">>)
           /\ d >= 1
           /\ HasLiteral(filename, u + 2 + d, <<".">>)
        THEN u + 2 + d
        ELSE 0

\* end of the match of ^([A-Z]+\.\d+\.Image\s+\d+), 0 if none
MatchImage(filename) ==
    LET h == SeriesHead(filename)
        w == RunLen(filename, h + 6, Space)
        n == RunLen(filename, h + 6 + w, Digit)
    IN  IF /\ h > 0
           /\ HasLiteral(filename, h + 1, <<"I", "m", "a", "g", "e">>)
           /\ w >= 1
           /\ n >= 1
        THEN h + 5 + w + n
        ELSE 0

\* end of the match of ^([A-Z]+\.\d+\.[^\.]+), 0 if none
MatchField(filename) ==
    LET h == SeriesHead(filename)
        r == RunLenNotDot(filename, h + 1)
    IN  IF h > 0 /\ r >= 1 THEN h + r ELSE 0

\* starts of the matches of \.\d+\. in s
DotDigitsDot(s) ==
    {i \in 1..Len(s) :
        /\ s[i] = "."
        /\ RunLen(s, i + 1, Digit) >= 1
        /\ HasLiteral(s, i + 1 + RunLen(s, i + 1, Digit), <<".">>)}

extract_series_info(filename) ==
    IF MatchImage(filename) > 0 THEN SubSeq(filename, 1, MatchImage(filename))
    ELSE IF MatchField(filename) > 0 THEN SubSeq(filename, 1, MatchField(filename))
    ELSE IF DotDigitsDot(filename) # {}
         THEN SubSeq(filename, 1, Min(DotDigitsDot(filename)) - 1)
    ELSE splitext_root(filename)

\* len(re.findall(r'\.\d+', file_name)), scanning from position k
RECURSIVE FindAllDotDigits(_, _)
FindAllDotDigits(s, k) ==
    IF k >= Len(s) THEN 0
    ELSE IF s[k] = "." /\ s[k + 1] \in Digit
         THEN 1 + FindAllDotDigits(s, k + 1 + RunLen(s, k + 1, Digit))
    ELSE FindAllDotDigits(s, k + 1)

suffix_count(file_name) == FindAllDotDigits(file_name, 1)

\* advanced mode: filename.split('.')[1] when the name has a dot, else 'unknown'
patient_id_of(filename) ==
    LET dots == {i \in 1..Len(filename) : filename[i] = "."}
    IN  IF dots = {} THEN <<"u", "n", "k", "n", "o", "w", "n">>
        ELSE LET d1 == Min(dots)
                 rest == {i \in dots : i > d1}
                 d2 == IF rest = {} THEN Len(filename) + 1 ELSE Min(rest)
             IN  SubSeq(filename, d1 + 1, d2 - 1)

----------------------------------------------------------------------------
(* Files *)

\* pydicom.dcmread / open raise for a file that is not readable; a tag the
\* data set does not carry is <<>>
NoTag == <<>>

MkFile(dir, name, size, dims, sop, series, instance, digest, readable) ==
    [dir |-> dir, name |-> name, size |-> size, dims |-> dims, sop |-> sop,
     series |-> series, instance |-> instance, digest |-> digest,
     readable |-> readable]

\* two records are the same file when they have the same path
PathOf(f) == <<f.dir, f.name>>

DCM == <<".", "d", "c", "m">>

\* `<M>.<p>.Image <n>` as characters
ImageName(m, p, n) == m \o <<".", p, ".", "I", "m", "a", "g", "e", " ", n>>

\* directory <root>/<patient>/<folder>/<date>
DirOf(patient, folder, date) == <<"root", patient, folder, date>>

UID1 == <<"1", ".", "2", ".", "3">>
SER1 == <<"1", ".", "2", ".", "9">>
HashA == <<"a", "0">>
HashB == <<"b", "1">>
HashC == <<"c", "2">>

(* The tree the engine runs are drawn from.                                 *)
(*   FA      a CT slice                                                     *)
(*   FB      a re-export of FA with a numeric suffix and its tags stripped  *)
(*   FC      a byte-identical copy of FA in another date folder             *)
(*   FD      a CBCT image without SOPInstanceUID                            *)
(*   FE      a byte-identical copy of FD with a numeric suffix              *)
(*   FF      an RTIMAGE file that cannot be read                            *)
FA == MkFile(DirOf("P1", "CT", "d1"), ImageName(<<"C", "T">>, "1", "1") \o DCM,
             100000, <<512, 512>>, UID1, SER1, <<"1">>, HashA, TRUE)
FB == MkFile(DirOf("P1", "CT", "d1"),
             ImageName(<<"C", "T">>, "1", "1") \o <<".", "0", "0", "0", "4">> \o DCM,
             120000, NoTag, NoTag, NoTag, NoTag, HashB, TRUE)
FC == MkFile(DirOf("P1", "CT", "d2"), ImageName(<<"C", "T">>, "1", "1") \o DCM,
             100000, <<512, 512>>, UID1, SER1, <<"1">>, HashA, TRUE)
FD == MkFile(DirOf("P2", "CBCT", "d1"), ImageName(<<"C", "T">>, "2", "1") \o DCM,
             50000, <<256, 256>>, NoTag, SER1, <<"4">>, HashC, TRUE)
FE == MkFile(DirOf("P2", "CBCT", "d1"),
             ImageName(<<"C", "T">>, "2", "1") \o <<".", "0", "0", "0", "1">> \o DCM,
             50000, <<256, 256>>, NoTag, SER1, <<"4">>, HashC, TRUE)
FF == MkFile(DirOf("P2", "RI", "d1"),
             <<"R", "I", ".", "2", ".", "F", "i", "e", "l", "d", " ", "5">> \o DCM,
             70000, NoTag, NoTag, NoTag, NoTag, NoTag, FALSE)

Tree == {FA, FB, FC, FD, FE, FF}

HashMethods == {"filename", "pattern", "metadata", "content", "advanced"}

Actions == {"report", "move", "delete"}

\* all orders in which glob may return the files of set S
Orders(S) ==
    {s \in [1..Cardinality(S) -> S] : \A i, j \in 1..Cardinality(S) : i # j => s[i] # s[j]}

----------------------------------------------------------------------------
(* Ordered dictionaries (dict / defaultdict(list)): sequences of entries    *)
(* [key, files] in insertion order                                          *)

Keys(d) == {d[i].key : i \in 1..Len(d)}

IndexOfKey(d, k) == CHOOSE i \in 1..Len(d) : d[i].key = k

\* d[k].extend(fs) on a defaultdict(list)
Extend(d, k, fs) ==
    IF k \in Keys(d)
    THEN [d EXCEPT ![IndexOfKey(d, k)].files = @ \o fs]
    ELSE Append(d, [key |-> k, files |-> fs])

\* d[k].append(f) on a defaultdict(list)
AppendTo(d, k, f) == Extend(d, k, <<f>>)

----------------------------------------------------------------------------
(* find_duplicate_files *)

\* metadata mode, the key of a file whose data set was read
metadata_key(f) ==
    IF f.sop # NoTag THEN f.sop
    ELSE IF f.series # NoTag /\ f.instance # NoTag
         THEN f.series \o <<"_">> \o f.instance
    ELSE extract_base_name(f.name)

\* whether the read that hash_method makes of file f raises
ReadRaises(f, method) == method \in {"metadata", "content"} /\ ~f.readable

\* mutant of GroupKey: content mode keys a file by its base name
GroupKey_ContentByName(f, method) ==
    CASE method = "filename" -> extract_base_name(f.name)
      [] method = "pattern"  -> extract_series_info(f.name)
      [] method = "metadata" -> metadata_key(f)
      [] method = "content"  -> extract_base_name(f.name)

\* the key under which the loop body of hash_method files f
GroupKey(f, method) ==
    CASE method = "filename" -> extract_base_name(f.name)
      [] method = "pattern"  -> extract_series_info(f.name)
      [] method = "metadata" -> metadata_key(f)
      [] method = "content"  -> f.digest

\* mutant of GroupOne: the handler lacks its continue, the file is filed too
GroupOne_NoContinue(st, f, method) ==
    IF ReadRaises(f, method)
    THEN [st EXCEPT !.error_files = Append(@, f),
                    !.duplicates = AppendTo(@, extract_base_name(f.name), f)]
    ELSE [st EXCEPT !.duplicates = AppendTo(@, GroupKey(f, method), f)]

\* one iteration of the loop over dicom_files in the filename, pattern,
\* metadata and content branches, on st = [duplicates, error_files]
GroupOne(st, f, method) ==
    IF ReadRaises(f, method)
    THEN [st EXCEPT !.error_files = Append(@, f)]
    ELSE [st EXCEPT !.duplicates = AppendTo(@, GroupKey(f, method), f)]

\* advanced mode, one iteration of the loop that fills patient_groups
PatientOne(pg, f) == AppendTo(pg, patient_id_of(f.name), f)

\* mutant of SeriesFiles: every file of the patient goes under one series
RECURSIVE SeriesFiles_OneSeries(_, _)
SeriesFiles_OneSeries(sf, files) ==
    IF files = <<>> THEN sf
    ELSE SeriesFiles_OneSeries(AppendTo(sf, <<>>, Head(files)), Tail(files))

\* advanced mode: series_files of one patient's files
RECURSIVE SeriesFiles(_, _)
SeriesFiles(sf, files) ==
    IF files = <<>> THEN sf
    ELSE SeriesFiles(AppendTo(sf, extract_series_info(Head(files).name), Head(files)),
                     Tail(files))

\* mutant of SeriesExtension: extends with the patient's whole file list
SeriesExtension_AllFiles(files, series_file_list) == files

\* advanced mode: what is added to duplicates[key] for one series of a patient
SeriesExtension(files, series_file_list) == series_file_list

\* mutant of AdvancedKey: the key is the series key alone
AdvancedKey_NoPatient(patient_id, series_info) == series_info

\* advanced mode: key = f"{patient_id}_{series_info}"
AdvancedKey(patient_id, series_info) == patient_id \o <<"_">> \o series_info

\* advanced mode: the loop over series_files.items() of one patient
RECURSIVE AddSeries(_, _, _, _)
AddSeries(dups, patient_id, files, sf) ==
    IF sf = <<>> THEN dups
    ELSE AddSeries(Extend(dups, AdvancedKey(patient_id, Head(sf).key),
                          SeriesExtension(files, Head(sf).files)),
                   patient_id, files, Tail(sf))

\* advanced mode, one iteration of the loop over patient_groups.items()
PatientSeries(dups, entry) ==
    AddSeries(dups, entry.key, entry.files, SeriesFiles(<<>>, entry.files))

\* mutant of IsDuplicateGroup: len(files) > 0
IsDuplicateGroup_NonEmpty(files) == Len(files) > 0

\* the size test of the filter that makes true_duplicates
IsDuplicateGroup(files) == Len(files) > 1

\* true_duplicates: the entries with more than one file, order kept
RECURSIVE TrueDuplicates(_)
TrueDuplicates(d) ==
    IF d = <<>> THEN <<>>
    ELSE IF IsDuplicateGroup(Head(d).files)
         THEN <<Head(d)>> \o TrueDuplicates(Tail(d))
         ELSE TrueDuplicates(Tail(d))

RECURSIVE GroupAll(_, _, _)
GroupAll(st, files, method) ==
    IF files = <<>> THEN st
    ELSE GroupAll(GroupOne(st, Head(files), method), Tail(files), method)

RECURSIVE PatientAll(_, _)
PatientAll(pg, files) ==
    IF files = <<>> THEN pg ELSE PatientAll(PatientOne(pg, Head(files)), Tail(files))

RECURSIVE PatientSeriesAll(_, _)
PatientSeriesAll(dups, pg) ==
    IF pg = <<>> THEN dups
    ELSE PatientSeriesAll(PatientSeries(dups, Head(pg)), Tail(pg))

\* one of the if / elif branches of find_duplicate_files runs its loop
BranchTaken(method) == method \in HashMethods

\* find_duplicate_files as a function of the glob result: true_duplicates,
\* which is empty when no branch runs
find_duplicate_files(files, method) ==
    IF ~BranchTaken(method) THEN <<>>
    ELSE IF method = "advanced"
    THEN TrueDuplicates(PatientSeriesAll(<<>>, PatientAll(<<>>, files)))
    ELSE TrueDuplicates(
             GroupAll([duplicates |-> <<>>, error_files |-> <<>>], files, method).duplicates)

----------------------------------------------------------------------------
(* rank_duplicate_files *)

\* '/<folder>/' in normalized_path: folder is a component of the directory
\* with a component before it (root_dir) and one after it
InFolder(dir, folder) == \E i \in 2..(Len(dir) - 1) : dir[i] = folder

is_ct_folder(dir) == InFolder(dir, "CT")

\* mutant of folder_priority: the RI and CBCT ranks are exchanged
folder_priority_Swapped(dir) ==
    IF      InFolder(dir, "CT")   THEN 1
    ELSE IF InFolder(dir, "RI")   THEN 7
    ELSE IF InFolder(dir, "RS")   THEN 3
    ELSE IF InFolder(dir, "RT")   THEN 4
    ELSE IF InFolder(dir, "RD")   THEN 5
    ELSE IF InFolder(dir, "RE")   THEN 6
    ELSE IF InFolder(dir, "CBCT") THEN 2
    ELSE 10

folder_priority(dir) ==
    IF      InFolder(dir, "CT")   THEN 1
    ELSE IF InFolder(dir, "RI")   THEN 2
    ELSE IF InFolder(dir, "RS")   THEN 3
    ELSE IF InFolder(dir, "RT")   THEN 4
    ELSE IF InFolder(dir, "RD")   THEN 5
    ELSE IF InFolder(dir, "RE")   THEN 6
    ELSE IF InFolder(dir, "CBCT") THEN 7
    ELSE 10

\* mutant of size_score: the CT branch does not negate the size
size_score_Unsigned(f) ==
    IF \E c \in {"CT", "RI", "RS", "RT", "RD", "RE", "CBCT"} : InFolder(f.dir, c)
    THEN f.size
    ELSE 0

size_score(f) ==
    IF InFolder(f.dir, "CT") THEN 0 - f.size
    ELSE IF \E c \in {"RI", "RS", "RT", "RD", "RE", "CBCT"} : InFolder(f.dir, c)
         THEN f.size
    ELSE 0

\* get_image_resolution: Rows * Columns, 0 when the read raises or a tag is missing
get_image_resolution(f) ==
    IF f.readable /\ f.dims # NoTag THEN f.dims[1] * f.dims[2] ELSE 0

resolution_score(f) == IF is_ct_folder(f.dir) THEN 0 ELSE get_image_resolution(f)

\* mutant of final_score: the suffix penalty is 100
final_score_Penalty100(f) ==
    size_score(f) - (suffix_count(f.name) * 100) - (folder_priority(f.dir) * 10000)
        + resolution_score(f)

final_score(f) ==
    size_score(f) - (suffix_count(f.name) * 1000) - (folder_priority(f.dir) * 10000)
        + resolution_score(f)

\* the dict appended to ranked_files for one file
FileInfo(f) ==
    [path |-> PathOf(f), file |-> f, size |-> f.size,
     folder_priority |-> folder_priority(f.dir),
     suffix_count |-> suffix_count(f.name),
     is_ct_folder |-> is_ct_folder(f.dir),
     resolution |-> resolution_score(f),
     size_score |-> size_score(f),
     score |-> final_score(f)]

\* mutant of SortsBefore: a later element overtakes an equal score
SortsBefore_Unstable(x, y) == x.score >= y.score

\* whether info x, later in the list than y, is placed before y by the sort
SortsBefore(x, y) == x.score > y.score

\* insertion of x into the sorted list s, behind every element it does not beat
RECURSIVE InsertSorted(_, _)
InsertSorted(s, x) ==
    IF s = <<>> THEN <<x>>
    ELSE IF SortsBefore(x, Head(s)) THEN <<x>> \o s
    ELSE <<Head(s)>> \o InsertSorted(Tail(s), x)

\* ranked_files.sort(key=score, reverse=True): stable, equal scores keep their order
RECURSIVE SortByScore(_, _)
SortByScore(sorted, rest) ==
    IF rest = <<>> THEN sorted
    ELSE SortByScore(InsertSorted(sorted, Head(rest)), Tail(rest))

\* the body of the loop over duplicate_files.items() for one group
RankGroupFiles(files) ==
    SortByScore(<<>>, [i \in 1..Len(files) |-> FileInfo(files[i])])

rank_duplicate_files(groups) ==
    [g \in 1..Len(groups) |->
        [key |-> groups[g].key, files |-> RankGroupFiles(groups[g].files)]]

----------------------------------------------------------------------------
(* process_duplicates *)

\* mutant of IsBestMatch: the comparison lets the second row through
IsBestMatch_OffByOne(i) == i <= 2

\* 'Is Best Match' of the row at position i (from 1) of a ranked group
IsBestMatch(i) == i = 1

\* action.capitalize()
Capitalize(a) ==
    CASE a = "report" -> "Report"
      [] a = "move"   -> "Move"
      [] a = "delete" -> "Delete"
      [] a = "purge"  -> "Purge"

\* the report rows of one ranked group
GroupRows(entry, act) ==
    [i \in 1..Len(entry.files) |->
        [group_key |-> entry.key,
         file_path |-> entry.files[i].path,
         final_score |-> entry.files[i].score,
         is_best_match |-> IsBestMatch(i),
         action |-> IF IsBestMatch(i) THEN "Keep" ELSE Capitalize(act)]]

RECURSIVE ReportRows(_, _)
ReportRows(ranked, act) ==
    IF ranked = <<>> THEN <<>>
    ELSE GroupRows(Head(ranked), act) \o ReportRows(Tail(ranked), act)

\* mutant of LosersOf: the slice starts at the head, ranked_files[0:]
LosersOf_WholeGroup(ranked_files) ==
    [i \in 1..Len(ranked_files) |-> ranked_files[i].file]

\* mutant of LosersOf: the slice is ranked_files[:1]
LosersOf_OnlyKeep(ranked_files) == <<ranked_files[1].file>>

\* duplicate_files of one group: ranked_files[1:]
LosersOf(ranked_files) ==
    [i \in 1..(Len(ranked_files) - 1) |-> ranked_files[i + 1].file]

\* the files the action loop visits, group by group, in order
RECURSIVE ActionList(_)
ActionList(ranked) ==
    IF ranked = <<>> THEN <<>>
    ELSE LosersOf(Head(ranked).files) \o ActionList(Tail(ranked))

RECURSIVE SumLen(_)
SumLen(d) == IF d = <<>> THEN 0 ELSE Len(Head(d).files) + SumLen(Tail(d))

\* mutant of Summary: the kept files are counted as duplicates too
Summary_KeepsCounted(groups, errors, processed) ==
    [total_scan_files |-> SumLen(groups),
     duplicate_groups |-> Len(groups),
     total_duplicates |-> SumLen(groups),
     files_to_keep |-> Len(groups),
     files_processed |-> processed,
     error_files |-> Len(errors)]

\* the summary dict
Summary(groups, errors, processed) ==
    [total_scan_files |-> SumLen(groups),
     duplicate_groups |-> Len(groups),
     total_duplicates |-> SumLen(groups) - Len(groups),
     files_to_keep |-> Len(groups),
     files_processed |-> processed,
     error_files |-> Len(errors)]

OnDisk(f) == \E g \in disk : PathOf(g) = PathOf(f)

\* a value of hash_method that none of the branches of find_duplicate_files
\* compares with, and a value of action that process_duplicates does not name
UnknownMethod == "sha256"
UnknownAction == "purge"

\* the values a caller of process_duplicates may pass
RequestedMethods == HashMethods \cup {UnknownMethod}
RequestedActions == Actions \cup {UnknownAction}

\* mutant of ActsOnFiles: the block runs for every action
ActsOnFiles_Always(act) == TRUE

\* if action in ['move', 'delete']
ActsOnFiles(act) == act \in {"move", "delete"}

\* output_dir outside and inside root_dir
OutsideDir == <<"out">>
InsideDir == <<"root", "out">>

UnderRoot(dir) == dir[1] = "root"

\* duplicate_dir = os.path.join(output_dir, "duplicates")
duplicate_dir(out) == out \o <<"duplicates">>

\* dest_path = os.path.join(duplicate_dir, os.path.relpath(file_path, root_dir))
DestOf(f, out) == [f EXCEPT !.dir = duplicate_dir(out) \o Tail(f.dir)]

\* a file is written at its path: what was there before is replaced
Replace(files, f) == {g \in files : PathOf(g) # PathOf(f)} \cup {f}

\* mutant of Unlink: the path is left on the disk
Unlink_Nothing(files, f) == files

\* the path of f leaves the tree
Unlink(files, f) == {g \in files : PathOf(g) # PathOf(f)}

\* shutil.move(file_path, dest_path): the tree under root_dir afterwards
MoveDisk(files, f, out) ==
    IF UnderRoot(out) THEN Replace(Unlink(files, f), DestOf(f, out))
    ELSE Unlink(files, f)

\* shutil.move(file_path, dest_path): the quarantine outside root_dir afterwards
MoveQuarantine(q, f, out) ==
    IF UnderRoot(out) THEN q ELSE Replace(q, DestOf(f, out))

\* mutant of OnActionError: the exception leaves the loop
OnActionError_Abort(last) == "summary"

\* except Exception in the loop over the losers: the loop goes on
OnActionError(last) == IF last THEN "summary" ELSE "act"

----------------------------------------------------------------------------
(* The run of process_duplicates *)

\* process_duplicates has not run yet
Fresh ==
    /\ duplicate_dir_made = FALSE
    /\ run = 1
    /\ failed = <<>>
    /\ date_folders = <<>>
    /\ total_ct_files = 0

Init ==
    /\ disk \in {S \in SUBSET Tree : Cardinality(S) <= MaxFiles}
    /\ quarantine = {}
    /\ output_dir = OutsideDir
    /\ Fresh
    /\ hash_method \in RequestedMethods
    /\ action \in RequestedActions
    /\ pc = "start"
    /\ dicom_files = <<>>
    /\ idx = 1
    /\ patient_groups = <<>>
    /\ duplicates = <<>>
    /\ error_files = <<>>
    /\ original_duplicates = <<>>
    /\ ranked_duplicates = <<>>
    /\ report_rows = <<>>
    /\ attempts = <<>>
    /\ processed_count = 0
    /\ summary = <<>>

\* glob.glob(root_dir/**/*.dcm): the files of the tree in the order the
\* directory scan yields them
Scan ==
    /\ pc = "start"
    /\ dicom_files' \in Orders(disk)
    /\ pc' = IF disk = {} \/ ~BranchTaken(hash_method) THEN "filter" ELSE "group"
    /\ UNCHANGED <<disk, quarantine, output_dir, duplicate_dir_made, run, failed,
                   hash_method, action, idx, patient_groups,
                   duplicates, error_files, original_duplicates,
                   ranked_duplicates, report_rows, attempts, processed_count,
                   summary>>
    /\ UNCHANGED <<date_folders, total_ct_files>>

\* one iteration of the loop over dicom_files of the selected branch
GroupFile ==
    /\ pc = "group"
    /\ LET f == dicom_files[idx]
           st == GroupOne([duplicates |-> duplicates, error_files |-> error_files],
                          f, hash_method)
           last == idx = Len(dicom_files)
       IN  /\ IF hash_method = "advanced"
              THEN /\ patient_groups' = PatientOne(patient_groups, f)
                   /\ UNCHANGED <<duplicates, error_files>>
              ELSE /\ duplicates' = st.duplicates
                   /\ error_files' = st.error_files
                   /\ UNCHANGED patient_groups
           /\ idx' = IF last THEN 1 ELSE idx + 1
           /\ pc' = IF ~last THEN "group"
                    ELSE IF hash_method = "advanced" THEN "patients"
                    ELSE "filter"
    /\ UNCHANGED <<disk, quarantine, output_dir, duplicate_dir_made, run, failed,
                   hash_method, action, dicom_files,
                   original_duplicates, ranked_duplicates, report_rows,
                   attempts, processed_count, summary>>
    /\ UNCHANGED <<date_folders, total_ct_files>>

\* advanced mode: one iteration of the loop over patient_groups.items()
GroupPatient ==
    /\ pc = "patients"
    /\ duplicates' = PatientSeries(duplicates, patient_groups[idx])
    /\ idx' = IF idx = Len(patient_groups) THEN 1 ELSE idx + 1
    /\ pc' = IF idx = Len(patient_groups) THEN "filter" ELSE "patients"
    /\ UNCHANGED <<disk, quarantine, output_dir, duplicate_dir_made, run, failed,
                   hash_method, action, dicom_files,
                   patient_groups, error_files, original_duplicates,
                   ranked_duplicates, report_rows, attempts, processed_count,
                   summary>>
    /\ UNCHANGED <<date_folders, total_ct_files>>

\* true_duplicates = {key: files ... if len(files) > 1}; find_duplicate_files returns
Filter ==
    /\ pc = "filter"
    /\ original_duplicates' = TrueDuplicates(duplicates)
    /\ idx' = 1
    /\ pc' = IF TrueDuplicates(duplicates) = <<>> THEN "report" ELSE "rank"
    /\ UNCHANGED <<disk, quarantine, output_dir, duplicate_dir_made, run, failed,
                   hash_method, action, dicom_files,
                   patient_groups, duplicates, error_files, ranked_duplicates,
                   report_rows, attempts, processed_count, summary>>
    /\ UNCHANGED <<date_folders, total_ct_files>>

\* rank_duplicate_files: one iteration of the loop over the groups
RankGroup ==
    /\ pc = "rank"
    /\ ranked_duplicates' =
           Append(ranked_duplicates,
                  [key |-> original_duplicates[idx].key,
                   files |-> RankGroupFiles(original_duplicates[idx].files)])
    /\ idx' = IF idx = Len(original_duplicates) THEN 1 ELSE idx + 1
    /\ pc' = IF idx = Len(original_duplicates) THEN "report" ELSE "rank"
    /\ UNCHANGED <<disk, quarantine, output_dir, duplicate_dir_made, run, failed,
                   hash_method, action, dicom_files,
                   patient_groups, duplicates, error_files, original_duplicates,
                   report_rows, attempts, processed_count, summary>>
    /\ UNCHANGED <<date_folders, total_ct_files>>

\* rank_duplicate_files: os.path.getsize raises for a member of the group (the
\* path is a dangling link, or the file is gone since the scan).  No handler
\* encloses the call: the exception leaves process_duplicates
RankRaises ==
    /\ pc = "rank"
    /\ pc' = "aborted"
    /\ UNCHANGED <<disk, quarantine, output_dir, duplicate_dir_made, run, failed,
                   hash_method, action, dicom_files, idx, patient_groups,
                   duplicates, error_files, original_duplicates,
                   ranked_duplicates, report_rows, attempts, processed_count,
                   summary>>
    /\ UNCHANGED <<date_folders, total_ct_files>>

\* the report rows are built and written; the block of the action is entered
\* and duplicate_dir is made for a move
WriteReport ==
    /\ pc = "report"
    /\ report_rows' = ReportRows(ranked_duplicates, action)
    /\ idx' = 1
    /\ duplicate_dir_made' =
           (duplicate_dir_made \/ (ActsOnFiles(action) /\ action = "move"))
    /\ pc' = IF ActsOnFiles(action) /\ ActionList(ranked_duplicates) # <<>>
             THEN "act" ELSE "summary"
    /\ UNCHANGED <<disk, quarantine, output_dir, run, failed,
                   hash_method, action, dicom_files,
                   patient_groups, duplicates, error_files, original_duplicates,
                   ranked_duplicates, attempts, processed_count, summary>>
    /\ UNCHANGED <<date_folders, total_ct_files>>

\* one iteration of the loop over the losers: shutil.move (which replaces a
\* file that exists at dest_path) or os.remove.  Either raises when the file
\* is no longer there and may raise for any other file; the handler of the
\* iteration catches it
ActOnFile ==
    /\ pc = "act"
    /\ LET f == ActionList(ranked_duplicates)[idx]
           last == idx = Len(ActionList(ranked_duplicates))
       IN  /\ attempts' = Append(attempts, f)
           /\ \/ /\ OnDisk(f)
                 /\ IF action = "move"
                    THEN /\ disk' = MoveDisk(disk, f, output_dir)
                         /\ quarantine' = MoveQuarantine(quarantine, f, output_dir)
                    ELSE /\ disk' = Unlink(disk, f)
                         /\ UNCHANGED quarantine
                 /\ processed_count' = processed_count + 1
                 /\ pc' = IF last THEN "summary" ELSE "act"
                 /\ UNCHANGED failed
              \/ /\ failed' = Append(failed, f)
                 /\ pc' = OnActionError(last)
                 /\ UNCHANGED <<disk, quarantine, processed_count>>
           /\ idx' = IF last THEN 1 ELSE idx + 1
    /\ UNCHANGED <<output_dir, duplicate_dir_made, run, hash_method, action,
                   dicom_files, patient_groups, duplicates,
                   error_files, original_duplicates, ranked_duplicates,
                   report_rows, summary>>
    /\ UNCHANGED <<date_folders, total_ct_files>>

\* the summary is built, written and returned
WriteSummary ==
    /\ pc = "summary"
    /\ summary' = Summary(original_duplicates, error_files, processed_count)
    /\ pc' = "done"
    /\ UNCHANGED <<disk, quarantine, output_dir, duplicate_dir_made, run, failed,
                   hash_method, action, dicom_files, idx,
                   patient_groups, duplicates, error_files, original_duplicates,
                   ranked_duplicates, report_rows, attempts, processed_count>>
    /\ UNCHANGED <<date_folders, total_ct_files>>

Next ==
    \/ Scan
    \/ GroupFile
    \/ GroupPatient
    \/ Filter
    \/ RankGroup
    \/ RankRaises
    \/ WriteReport
    \/ ActOnFile
    \/ WriteSummary

Spec == Init /\ [][Next]_vars

----------------------------------------------------------------------------
(* Move runs: output_dir outside or inside root_dir, a quarantine that a    *)
(* previous use of output_dir may have filled, and process_duplicates       *)
(* called a second time with the same arguments.                            *)

HashOld == <<"d", "3">>

\* what an earlier run left at the destination of f: an older revision
StaleOf(f, out) == [DestOf(f, out) EXCEPT !.size = f.size + 1, !.digest = HashOld]

InitMove ==
    /\ disk \in {S \in SUBSET Tree : Cardinality(S) <= MaxMoveFiles}
    /\ output_dir \in {OutsideDir, InsideDir}
    /\ quarantine \in IF UnderRoot(output_dir) THEN {{}}
                      ELSE {{}} \cup {{StaleOf(f, output_dir)} : f \in disk}
    /\ Fresh
    /\ hash_method \in HashMethods
    /\ action = "move"
    /\ pc = "start"
    /\ dicom_files = <<>>
    /\ idx = 1
    /\ patient_groups = <<>>
    /\ duplicates = <<>>
    /\ error_files = <<>>
    /\ original_duplicates = <<>>
    /\ ranked_duplicates = <<>>
    /\ report_rows = <<>>
    /\ attempts = <<>>
    /\ processed_count = 0
    /\ summary = <<>>

\* process_duplicates is called again with the same arguments
Rerun ==
    /\ pc = "done"
    /\ run = 1
    /\ run' = 2
    /\ pc' = "start"
    /\ dicom_files' = <<>>
    /\ idx' = 1
    /\ patient_groups' = <<>>
    /\ duplicates' = <<>>
    /\ error_files' = <<>>
    /\ original_duplicates' = <<>>
    /\ ranked_duplicates' = <<>>
    /\ report_rows' = <<>>
    /\ attempts' = <<>>
    /\ processed_count' = 0
    /\ summary' = <<>>
    /\ UNCHANGED <<disk, quarantine, output_dir, duplicate_dir_made, failed,
                   hash_method, action>>
    /\ UNCHANGED <<date_folders, total_ct_files>>

NextMove == Next \/ Rerun

SpecMove == InitMove /\ [][NextMove]_vars

----------------------------------------------------------------------------
(* rank_duplicate_files on generated groups.  The members carry the same    *)
(* SOPInstanceUID, so each group is one that metadata mode returns for the  *)
(* tree made of its members.                                                *)

RECURSIVE SuffixTokens(_)
SuffixTokens(k) == IF k = 0 THEN <<>> ELSE <<".", "1">> \o SuffixTokens(k - 1)

\* `IM` followed by k tokens `.1` and the extension
SuffixName(k) == <<"I", "M">> \o SuffixTokens(k) \o DCM

SuffixNames == {SuffixName(k) : k \in 0..MaxSuffix}

\* the category folders the score distinguishes, and one it does not know
FolderNames == {"CT", "RI", "RS", "RT", "RD", "RE", "CBCT", "MR"}

Sizes == {50000, 100000, 120000, 200000, 5000000}

CTSizes == {100000, 120000, 200000}

Dims == {NoTag, <<512, 512>>}

GenFile(dir, name, size, dims) ==
    MkFile(dir, name, size, dims, UID1, SER1, <<"1">>, NoTag, TRUE)

\* files of every folder, size and resolution
CrossFiles ==
    {GenFile(DirOf("P1", c, "d1"), n, sz, dm) :
        c \in FolderNames, n \in SuffixNames, sz \in Sizes, dm \in Dims}

\* CT slices in two date folders
CTFiles ==
    {GenFile(DirOf("P1", "CT", d), n, sz, NoTag) :
        d \in {"d1", "d2"}, n \in SuffixNames, sz \in CTSizes}

DistinctPaths(g) == \A i, j \in 1..Len(g) : i # j => PathOf(g[i]) # PathOf(g[j])

\* pairs of files of any two folders
CrossPairs == {g \in [1..2 -> CrossFiles] : DistinctPaths(g)}

\* groups of two to MaxGroup CT slices
CTGroups ==
    UNION {{g \in [1..n -> CTFiles] : DistinctPaths(g)} : n \in 2..MaxGroup}

RankKey == UID1

\* the state in which process_duplicates calls rank_duplicate_files
InitRank ==
    /\ \E g \in CrossPairs \cup CTGroups :
          /\ dicom_files = g
          /\ disk = {g[i] : i \in 1..Len(g)}
          /\ duplicates = <<[key |-> RankKey, files |-> g]>>
          /\ original_duplicates = <<[key |-> RankKey, files |-> g]>>
    /\ quarantine = {}
    /\ output_dir = OutsideDir
    /\ Fresh
    /\ hash_method = "metadata"
    /\ action = "report"
    /\ pc = "rank"
    /\ idx = 1
    /\ patient_groups = <<>>
    /\ error_files = <<>>
    /\ ranked_duplicates = <<>>
    /\ report_rows = <<>>
    /\ attempts = <<>>
    /\ processed_count = 0
    /\ summary = <<>>

NextRank == RankGroup \/ WriteReport

SpecRank == InitRank /\ [][NextRank]_vars

----------------------------------------------------------------------------
(* process_ct_duplicates of src/duplicate_detection_ct_only.py: the run     *)
(* over the CT date folders only.                                           *)

\* a copy nested below a CT date folder, a CT slice of a second patient whose
\* name has the base name of FA, and a copy of FA's size beside FA
FG == MkFile(<<"root", "P1", "CT", "d1", "sub">>,
             ImageName(<<"C", "T">>, "1", "1") \o <<".", "0", "0", "0", "3">> \o DCM,
             100000, NoTag, NoTag, NoTag, NoTag, HashB, TRUE)
FH == MkFile(DirOf("P2", "CT", "d1"),
             ImageName(<<"C", "T">>, "1", "1") \o <<".", "0", "0", "0", "1">> \o DCM,
             90000, NoTag, NoTag, NoTag, NoTag, HashB, TRUE)
FI == MkFile(DirOf("P1", "CT", "d1"),
             ImageName(<<"C", "T">>, "1", "1") \o <<".", "0", "0", "0", "2">> \o DCM,
             100000, NoTag, NoTag, NoTag, NoTag, HashB, TRUE)

CTTree == Tree \cup {FG, FH, FI}

\* mutant of IsCTFolder: every folder of a patient is taken
IsCTFolder_AnyFolder(dir) == Len(dir) >= 4

\* dir lies in, or below, <root>/<patient>/CT/<date>
IsCTFolder(dir) == Len(dir) >= 4 /\ dir[3] = "CT"

\* the date folders of the CT folders of the patient folders
CTDateFolders(files) ==
    {SubSeq(f.dir, 1, 4) : f \in {g \in files : IsCTFolder(g.dir)}}

\* the orders in which os.listdir may yield them: patient by patient
FolderOrders(D) ==
    {o \in Orders(D) :
        \A i, j, k \in 1..Len(o) :
            (i < j /\ j < k /\ o[i][2] = o[k][2]) => o[j][2] = o[i][2]}

\* glob.glob(os.path.join(date_path, "*.dcm")): the files directly in it
FilesIn(files, date_path) == {f \in files : f.dir = date_path}

\* base_name_groups of one date folder
RECURSIVE BaseNameGroups(_, _)
BaseNameGroups(groups, files) ==
    IF files = <<>> THEN groups
    ELSE BaseNameGroups(AppendTo(groups, extract_base_name(Head(files).name),
                                 Head(files)),
                        Tail(files))

\* get_file_size: the size, 0 when os.path.getsize raises.  The division by
\* 1024 keeps the order and the ties of the byte sizes
get_file_size(f, bad) == IF f \in bad THEN 0 ELSE f.size

\* the sort key of a member together with whether its size could be read
SizeInfo(f, bad) ==
    [path |-> PathOf(f), file |-> f, size_key |-> get_file_size(f, bad),
     size_failed |-> f \in bad]

\* insertion of x into s, behind every element whose key is not greater
RECURSIVE InsertBySize(_, _)
InsertBySize(s, x) ==
    IF s = <<>> THEN <<x>>
    ELSE IF x.size_key < Head(s).size_key THEN <<x>> \o s
    ELSE <<Head(s)>> \o InsertBySize(Tail(s), x)

\* sorted(files, key=get_file_size): ascending and stable
RECURSIVE SortBySize(_, _)
SortBySize(sorted, rest) ==
    IF rest = <<>> THEN sorted
    ELSE SortBySize(InsertBySize(sorted, Head(rest)), Tail(rest))

\* the report rows of one ranked group: the keep row, then the others
CTRows(key, ranked, act) ==
    [i \in 1..Len(ranked) |->
        [group_key |-> key,
         file_path |-> ranked[i].path,
         is_best_match |-> i = 1,
         action |-> IF i = 1 THEN "Keep" ELSE Capitalize(act)]]

\* the loop over files_to_process on st = [disk, quarantine, processed,
\* failed]: shutil.move or os.remove of each, which raises for those in F
RECURSIVE CTApply(_, _, _, _, _)
CTApply(st, losers, F, act, out) ==
    IF losers = <<>> THEN st
    ELSE LET f == Head(losers)
             nx == IF f \in F
                   THEN [st EXCEPT !.failed = Append(@, f)]
                   ELSE [disk |-> IF act = "move" THEN MoveDisk(st.disk, f, out)
                                  ELSE Unlink(st.disk, f),
                         quarantine |-> IF act = "move"
                                        THEN MoveQuarantine(st.quarantine, f, out)
                                        ELSE st.quarantine,
                         processed |-> st.processed + 1,
                         failed |-> st.failed]
         IN  CTApply(nx, Tail(losers), F, act, out)

\* the summary dict of process_ct_duplicates
CTSummary(total, kept, to_process, processed) ==
    [total_ct_files |-> total,
     total_duplicate_groups |-> kept,
     files_to_keep |-> kept,
     files_to_process |-> to_process,
     files_processed |-> processed]

InitCT ==
    /\ disk \in {S \in SUBSET CTTree : Cardinality(S) <= MaxCTFiles}
    /\ output_dir \in {OutsideDir, InsideDir}
    /\ quarantine = {}
    /\ Fresh
    /\ hash_method = "filename"
    /\ action \in Actions
    /\ pc = "ct_start"
    /\ dicom_files = <<>>
    /\ idx = 1
    /\ patient_groups = <<>>
    /\ duplicates = <<>>
    /\ error_files = <<>>
    /\ original_duplicates = <<>>
    /\ ranked_duplicates = <<>>
    /\ report_rows = <<>>
    /\ attempts = <<>>
    /\ processed_count = 0
    /\ summary = <<>>

\* the position after a date folder is done
AfterDate(folders) == IF folders = <<>> THEN "ct_report" ELSE "ct_date"

\* duplicate_dir is made for a move; the patient folders, their CT folders
\* and the date folders are listed
CTListFolders ==
    /\ pc = "ct_start"
    /\ duplicate_dir_made' = (action = "move")
    /\ date_folders' \in FolderOrders(CTDateFolders(disk))
    /\ pc' = AfterDate(date_folders')
    /\ UNCHANGED <<disk, quarantine, output_dir, run, failed, total_ct_files,
                   hash_method, action, dicom_files, idx, patient_groups,
                   duplicates, error_files, original_duplicates,
                   ranked_duplicates, report_rows, attempts, processed_count,
                   summary>>

\* one date folder: glob, base_name_groups, duplicate_groups
CTGroupDate ==
    /\ pc = "ct_date"
    /\ date_folders' = Tail(date_folders)
    /\ dicom_files' \in Orders(FilesIn(disk, Head(date_folders)))
    /\ total_ct_files' = total_ct_files + Len(dicom_files')
    /\ duplicates' = BaseNameGroups(<<>>, dicom_files')
    /\ original_duplicates' = TrueDuplicates(duplicates')
    /\ idx' = 1
    /\ pc' = IF original_duplicates' = <<>> THEN AfterDate(date_folders')
             ELSE "ct_group"
    /\ UNCHANGED <<disk, quarantine, output_dir, duplicate_dir_made, run, failed,
                   hash_method, action, patient_groups, error_files,
                   ranked_duplicates, report_rows, attempts, processed_count,
                   summary>>

\* one duplicate group: the sort by size, in which os.path.getsize may raise
\* for a member, the rows, and the move or delete of every file but the first
CTProcessGroup ==
    /\ pc = "ct_group"
    /\ LET entry == original_duplicates[idx]
           members == {entry.files[i] : i \in 1..Len(entry.files)}
           last == idx = Len(original_duplicates)
       IN  \E bad \in SUBSET members :
           \E F \in SUBSET members :
               LET ranked == SortBySize(<<>>, [i \in 1..Len(entry.files) |->
                                                 SizeInfo(entry.files[i], bad)])
                   losers == [i \in 1..(Len(ranked) - 1) |-> ranked[i + 1].file]
                   st == CTApply([disk |-> disk, quarantine |-> quarantine,
                                  processed |-> processed_count, failed |-> failed],
                                 losers, F, action, output_dir)
               IN  /\ F \subseteq {losers[i] : i \in 1..Len(losers)}
                   /\ ActsOnFiles(action) \/ F = {}
                   /\ ranked_duplicates' =
                          Append(ranked_duplicates,
                                 [key |-> entry.key, files |-> ranked])
                   /\ report_rows' = report_rows \o CTRows(entry.key, ranked, action)
                   /\ IF ActsOnFiles(action)
                      THEN /\ attempts' = attempts \o losers
                           /\ disk' = st.disk
                           /\ quarantine' = st.quarantine
                           /\ processed_count' = st.processed
                           /\ failed' = st.failed
                      ELSE UNCHANGED <<attempts, disk, quarantine,
                                       processed_count, failed>>
                   /\ idx' = IF last THEN 1 ELSE idx + 1
                   /\ pc' = IF last THEN AfterDate(date_folders) ELSE "ct_group"
    /\ UNCHANGED <<output_dir, duplicate_dir_made, run, date_folders,
                   total_ct_files, hash_method, action, dicom_files,
                   patient_groups, duplicates, error_files, original_duplicates,
                   summary>>

\* the report and the summary are written and the summary is returned
CTWriteSummary ==
    /\ pc = "ct_report"
    /\ summary' = CTSummary(total_ct_files, Len(ranked_duplicates),
                            Len(report_rows) - Len(ranked_duplicates),
                            processed_count)
    /\ pc' = "done"
    /\ UNCHANGED <<disk, quarantine, output_dir, duplicate_dir_made, run, failed,
                   date_folders, total_ct_files, hash_method, action,
                   dicom_files, idx, patient_groups, duplicates, error_files,
                   original_duplicates, ranked_duplicates, report_rows, attempts,
                   processed_count>>

NextCT ==
    \/ CTListFolders
    \/ CTGroupDate
    \/ CTProcessGroup
    \/ CTWriteSummary

SpecCT == InitCT /\ [][NextCT]_vars

----------------------------------------------------------------------------
(* A run that the user interrupts.                                          *)

\* KeyboardInterrupt is raised inside one of the loops.  It is not an
\* Exception, so the handlers of the loops let it pass, and no finally block
\* encloses them: process_duplicates is left at once
Cancel ==
    /\ pc \in {"group", "patients", "rank", "act"}
    /\ pc' = "cancelled"
    /\ UNCHANGED <<disk, quarantine, output_dir, duplicate_dir_made, run, failed,
                   hash_method, action, dicom_files, idx, patient_groups,
                   duplicates, error_files, original_duplicates,
                   ranked_duplicates, report_rows, attempts, processed_count,
                   summary>>
    /\ UNCHANGED <<date_folders, total_ct_files>>

NextCancel == Next \/ Cancel

SpecCancel == Init /\ [][NextCancel]_vars

----------------------------------------------------------------------------
(* Runs of the name-based modes over generated file names.  A name is a     *)
(* head, a run of numeric suffixes and the extension glob asks for.         *)

NameHeads ==
    {ImageName(<<"C", "T">>, "1", "1"),
     <<"C", "T", ".", "1", ".", "F", "i", "e", "l", "d", " ", "5">>,
     <<"C", "T", ".", "1">>,
     <<"a", ".", "1", ".", "x">>,
     <<"a", ".", "2", ".", "x">>,
     <<"I", "M">>}

NameSuffixes ==
    {<<>>,
     <<".", "0", "0", "0", "4">>,
     <<".", "1", ".", "2">>,
     <<".", ".", "7">>}

GenNames == {h \o x \o DCM : h \in NameHeads, x \in NameSuffixes}

\* a file of every generated name in one folder, and one name in a second
NameFiles ==
    {GenFile(DirOf("P1", "CT", "d1"), n, 100000, NoTag) : n \in GenNames}
        \cup {GenFile(DirOf("P1", "CT", "d2"), <<"I", "M">> \o DCM, 100000, NoTag)}

NameMethods == {"filename", "pattern", "advanced"}

InitNames ==
    /\ disk \in {S \in SUBSET NameFiles : Cardinality(S) <= MaxNameFiles}
    /\ quarantine = {}
    /\ output_dir = OutsideDir
    /\ Fresh
    /\ hash_method \in NameMethods
    /\ action = "report"
    /\ pc = "start"
    /\ dicom_files = <<>>
    /\ idx = 1
    /\ patient_groups = <<>>
    /\ duplicates = <<>>
    /\ error_files = <<>>
    /\ original_duplicates = <<>>
    /\ ranked_duplicates = <<>>
    /\ report_rows = <<>>
    /\ attempts = <<>>
    /\ processed_count = 0
    /\ summary = <<>>

\* the steps of a report run
NextNames ==
    \/ Scan
    \/ GroupFile
    \/ GroupPatient
    \/ Filter
    \/ RankGroup
    \/ WriteReport
    \/ WriteSummary

SpecNames == InitNames /\ [][NextNames]_vars

----------------------------------------------------------------------------
(* Properties *)

\* rank_duplicate_files has returned
Ranked == pc \in {"report", "act", "summary", "done"}

\* find_duplicate_files has returned
Grouped == pc \in {"rank", "report", "act", "summary", "done"}

\* the report has been written
Reported == pc \in {"act", "summary", "done"}

MemberPaths(files) == {PathOf(files[i]) : i \in 1..Len(files)}

RowsOfGroup(k) == {i \in 1..Len(report_rows) : report_rows[i].group_key = k}

KeepPaths == {ranked_duplicates[g].files[1].path : g \in 1..Len(ranked_duplicates)}

GroupedPaths == UNION {MemberPaths(original_duplicates[g].files) :
                          g \in 1..Len(original_duplicates)}

AttemptPaths == {PathOf(attempts[i]) : i \in 1..Len(attempts)}

\* C1: once the report is written, every group has one row per member and
\* exactly one of them is the keep row ('Is Best Match' true, Action 'Keep'):
\* the row of the head of the group's ranked list
C1_ExactlyOneKeep ==
    Reported =>
        /\ Len(ranked_duplicates) = Len(original_duplicates)
        /\ \A g \in 1..Len(original_duplicates) :
              LET k == original_duplicates[g].key
                  keepRows == {i \in RowsOfGroup(k) : report_rows[i].is_best_match}
              IN  /\ Cardinality(RowsOfGroup(k)) = Len(original_duplicates[g].files)
                  /\ {report_rows[i].file_path : i \in RowsOfGroup(k)}
                         = MemberPaths(original_duplicates[g].files)
                  /\ Cardinality(keepRows) = 1
                  /\ \A i \in RowsOfGroup(k) :
                        /\ report_rows[i].is_best_match <=> report_rows[i].action = "Keep"
                        /\ report_rows[i].is_best_match =>
                              report_rows[i].file_path = ranked_duplicates[g].files[1].path

\* C1 witness: a finished run that found two groups and reported four rows
C1_Witness ==
    pc = "done" /\ Len(ranked_duplicates) = 2 /\ Len(report_rows) = 4

\* C2: under move or delete no keep file is ever handed to move/delete and
\* every keep file stays on disk, no path is attempted twice, and when the
\* action loop is over the attempted paths are exactly the non-keep members
\* of the groups; under report nothing is attempted
C2_LosersActedOnce ==
    /\ \A i, j \in 1..Len(attempts) : i # j => PathOf(attempts[i]) # PathOf(attempts[j])
    /\ Ranked =>
          /\ AttemptPaths \cap KeepPaths = {}
          /\ \A k \in KeepPaths : \E f \in disk : PathOf(f) = k
    /\ (pc \in {"summary", "done"} /\ action \in {"move", "delete"}) =>
          AttemptPaths = GroupedPaths \ KeepPaths
    /\ action = "report" => attempts = <<>>

\* C2 witness: a finished delete run over two groups, one loser of each attempted
C2_Witness ==
    /\ pc = "done" /\ action = "delete"
    /\ Len(ranked_duplicates) = 2 /\ Len(attempts) = 2

\* C3: in every mode and at every point of the grouping, no path is filed
\* twice: the groups are pairwise disjoint and no group repeats a member
C3_GroupsDisjoint ==
    /\ \A g, h \in 1..Len(duplicates) :
          \A i \in 1..Len(duplicates[g].files), j \in 1..Len(duplicates[h].files) :
              (g # h \/ i # j) =>
                  PathOf(duplicates[g].files[i]) # PathOf(duplicates[h].files[j])
    /\ \A g, h \in 1..Len(original_duplicates) :
          \A i \in 1..Len(original_duplicates[g].files),
             j \in 1..Len(original_duplicates[h].files) :
              (g # h \/ i # j) =>
                  PathOf(original_duplicates[g].files[i])
                      # PathOf(original_duplicates[h].files[j])

\* C3 witness: find_duplicate_files returned two groups
C3_Witness == pc = "rank" /\ Len(original_duplicates) = 2

RECURSIVE CountDuplicates(_)
CountDuplicates(d) ==
    IF d = <<>> THEN 0
    ELSE (IF Len(Head(d).files) >= 2 THEN Len(Head(d).files) - 1 ELSE 0)
             + CountDuplicates(Tail(d))

RealGroups == {g \in 1..Len(duplicates) : Len(duplicates[g].files) >= 2}

\* C4: every group that is returned or ranked has at least two members; a
\* group left with one member is not returned, not ranked, gets no report
\* row and no action, and the summary counts only the groups of two or more
C4_SingletonsDiscarded ==
    /\ \A g \in 1..Len(original_duplicates) : Len(original_duplicates[g].files) >= 2
    /\ \A g \in 1..Len(ranked_duplicates) : Len(ranked_duplicates[g].files) >= 2
    /\ Grouped =>
          \A g \in 1..Len(duplicates) :
              Len(duplicates[g].files) = 1 =>
                  LET single == PathOf(duplicates[g].files[1])
                  IN  /\ duplicates[g].key \notin Keys(original_duplicates)
                      /\ duplicates[g].key \notin Keys(ranked_duplicates)
                      /\ \A i \in 1..Len(report_rows) :
                            /\ report_rows[i].file_path # single
                            /\ report_rows[i].group_key # duplicates[g].key
                      /\ single \notin AttemptPaths
    /\ pc = "done" =>
          /\ summary.duplicate_groups = Cardinality(RealGroups)
          /\ summary.files_to_keep = Cardinality(RealGroups)
          /\ summary.total_duplicates = CountDuplicates(duplicates)

\* C4 witness: a finished run with a group of one beside a ranked group
C4_Witness ==
    /\ pc = "done"
    /\ Len(ranked_duplicates) >= 1
    /\ \E g \in 1..Len(duplicates) : Len(duplicates[g].files) = 1

InputPos(files, path) == CHOOSE i \in 1..Len(files) : PathOf(files[i]) = path

\* C5: the ranked list holds the members of the group, its head has the
\* maximum score, and members of equal score stand in their input order (so
\* among several members of maximum score the first in input order is kept)
C5_MaxScoreStable ==
    \A g \in 1..Len(ranked_duplicates) :
        LET R == ranked_duplicates[g].files
            I == original_duplicates[g].files
        IN  /\ Len(R) = Len(I)
            /\ {R[i].path : i \in 1..Len(R)} = MemberPaths(I)
            /\ \A j \in 1..Len(R) : R[1].score >= R[j].score
            /\ \A i, j \in 1..Len(R) :
                  (i < j /\ R[i].score = R[j].score) =>
                      InputPos(I, R[i].path) < InputPos(I, R[j].path)

\* C5 witness: three members, the last two of the input tie on the maximum
\* score, and the second of the input is kept
C5_Witness ==
    /\ Len(ranked_duplicates) = 1
    /\ LET R == ranked_duplicates[1].files
           I == original_duplicates[1].files
       IN  /\ Len(R) = 3
           /\ R[1].score = R[2].score
           /\ R[2].score > R[3].score
           /\ R[1].path = PathOf(I[2])
           /\ R[2].path = PathOf(I[3])

\* the ranking of the groups, by key
RankedSet(ranked) == {ranked[g] : g \in 1..Len(ranked)}

\* C6: the ranking (the keep file and the score order of every group) is the
\* same for every order in which glob may return the files of the tree
C6_OrderIndependent ==
    pc = "report" =>
        \A o \in Orders({dicom_files[i] : i \in 1..Len(dicom_files)}) :
            RankedSet(rank_duplicate_files(find_duplicate_files(o, hash_method)))
                = RankedSet(ranked_duplicates)

\* the category folder of a generated file: <root>/<patient>/<folder>/<date>
FolderOf(f) == f.dir[3]

\* the number of `.1` tokens a generated name was built with
TokensOf(f) == CHOOSE k \in 0..MaxSuffix : SuffixName(k) = f.name

PriorityOf(c) ==
    CASE c = "CT" -> 1 [] c = "RI" -> 2 [] c = "RS" -> 3 [] c = "RT" -> 4
      [] c = "RD" -> 5 [] c = "RE" -> 6 [] c = "CBCT" -> 7 [] OTHER -> 10

RowsCols(f) == IF f.dims = NoTag THEN 0 ELSE f.dims[1] * f.dims[2]

KnownFolders == {"CT", "RI", "RS", "RT", "RD", "RE", "CBCT"}

\* the score as the specification states it: +byteSize outside CT
StatedScore(f) ==
    (IF FolderOf(f) = "CT" THEN 0 - f.size ELSE f.size)
        - TokensOf(f) * 1000 - PriorityOf(FolderOf(f)) * 10000
        + (IF FolderOf(f) = "CT" THEN 0 ELSE RowsCols(f))

\* the score with no size term for a folder that is none of the seven known
AmendedScore(f) ==
    (IF FolderOf(f) = "CT" THEN 0 - f.size
     ELSE IF FolderOf(f) \in KnownFolders THEN f.size ELSE 0)
        - TokensOf(f) * 1000 - PriorityOf(FolderOf(f)) * 10000
        + (IF FolderOf(f) = "CT" THEN 0 ELSE RowsCols(f))

\* C7 as stated: every ranked file has the stated score, the size term being
\* +byteSize for every category but CT, OTHER included
C7_StatedScore ==
    \A g \in 1..Len(ranked_duplicates) :
        \A i \in 1..Len(ranked_duplicates[g].files) :
            LET x == ranked_duplicates[g].files[i]
            IN  x.score = StatedScore(x.file)

\* C7 amended: every ranked file has score sizeTerm - suffixCount*1000
\* - folderPriority*10000 + resolutionTerm with the stated priorities and
\* resolution term, sizeTerm = -byteSize for CT, +byteSize for RI, RS, RT,
\* RD, RE and CBCT, and 0 for OTHER
C7_AmendedScore ==
    \A g \in 1..Len(ranked_duplicates) :
        \A i \in 1..Len(ranked_duplicates[g].files) :
            LET x == ranked_duplicates[g].files[i]
            IN  /\ x.score = AmendedScore(x.file)
                /\ x.folder_priority = PriorityOf(FolderOf(x.file))

\* C7 witness: a ranked pair of an RI file and a file of an unknown folder,
\* both with a size, a suffix and a resolution
C7_Witness ==
    /\ Len(ranked_duplicates) = 1
    /\ \E i, j \in 1..Len(ranked_duplicates[1].files) :
          LET x == ranked_duplicates[1].files[i].file
              y == ranked_duplicates[1].files[j].file
          IN  /\ FolderOf(x) = "MR" /\ x.size = 120000 /\ x.dims # NoTag
              /\ TokensOf(x) = 2
              /\ FolderOf(y) = "RI" /\ y.size = 50000 /\ y.dims # NoTag
              /\ TokensOf(y) = 1

\* the scenario's group: three CT files, sizes 120000 / 100000 / 200000 with
\* suffix counts 0 / 1 / 2
CTScenario(I) ==
    /\ Len(I) = 3
    /\ \A i \in 1..3 : FolderOf(I[i]) = "CT"
    /\ {<<I[i].size, TokensOf(I[i])>> : i \in 1..3}
           = {<<120000, 0>>, <<100000, 1>>, <<200000, 2>>}

\* C8: ranking the scenario's group gives the scores -130000, -111000 and
\* -212000 and keeps the 100000-byte file with suffix count 1
C8_CTScenario ==
    \A g \in 1..Len(ranked_duplicates) :
        CTScenario(original_duplicates[g].files) =>
            LET R == ranked_duplicates[g].files
            IN  /\ \A i \in 1..Len(R) :
                      R[i].score = CASE R[i].size = 120000 -> 0 - 130000
                                     [] R[i].size = 100000 -> 0 - 111000
                                     [] R[i].size = 200000 -> 0 - 212000
                /\ R[1].size = 100000
                /\ R[1].suffix_count = 1

\* C8 witness: the scenario's group has been ranked
C8_Witness ==
    /\ Len(ranked_duplicates) = 1
    /\ CTScenario(original_duplicates[1].files)

\* C9: of two members of a group in different categories, the one with the
\* lower folder priority has the strictly higher score
C9_FolderDominates ==
    \A g \in 1..Len(ranked_duplicates) :
        \A i, j \in 1..Len(ranked_duplicates[g].files) :
            LET x == ranked_duplicates[g].files[i]
                y == ranked_duplicates[g].files[j]
            IN  PriorityOf(FolderOf(x.file)) < PriorityOf(FolderOf(y.file)) =>
                    x.score > y.score

----------------------------------------------------------------------------
(* Arguments, errors and the file system: C11 - C20 *)

\* the arguments are values the documentation of process_duplicates names
ValidArguments == hash_method \in HashMethods /\ action \in Actions

\* a file of the scan whose read raises
Unreadable(f) == ~f.readable

ScanSet == {dicom_files[i] : i \in 1..Len(dicom_files)}

\* C11: a run that was asked for an unrecognized mode or an unrecognized
\* action stops with a configuration error before anything is written: it
\* never gets as far as a written report or a summary
C11_Misconfiguration ==
    (Reported \/ summary # <<>>) => ValidArguments

\* the scanned files without those whose read raises, in scan order
Readables == SelectSeq(dicom_files, LAMBDA f : ~Unreadable(f))

\* the loop over dicom_files has ended
LoopEnded == pc \notin {"start", "group", "aborted"}

\* C12: in metadata and content mode a file whose read raises is put on the
\* error list and nowhere else: it is a member of no group, it is not ranked,
\* reported or acted on, the groups and their ranking are the ones the same
\* scan without that file gives, and the summary's 'Error Files' is the number
\* of such files
C12_UnreadableIsolated ==
    hash_method \in {"metadata", "content"} =>
        /\ \A g \in 1..Len(duplicates) : \A i \in 1..Len(duplicates[g].files) :
              ~Unreadable(duplicates[g].files[i])
        /\ LoopEnded =>
              /\ {error_files[i] : i \in 1..Len(error_files)} =
                     {f \in ScanSet : Unreadable(f)}
              /\ Len(error_files) = Cardinality({f \in ScanSet : Unreadable(f)})
        /\ Grouped =>
              original_duplicates = find_duplicate_files(Readables, hash_method)
        /\ Ranked =>
              ranked_duplicates =
                  rank_duplicate_files(find_duplicate_files(Readables, hash_method))
        /\ \A i \in 1..Len(report_rows) :
              \A f \in ScanSet : Unreadable(f) => report_rows[i].file_path # PathOf(f)
        /\ \A i \in 1..Len(attempts) : ~Unreadable(attempts[i])
        /\ \A f \in ScanSet : Unreadable(f) => f \in disk
        /\ pc = "done" =>
              summary.error_files = Cardinality({f \in ScanSet : Unreadable(f)})

\* C12 witness: a finished metadata delete run over a tree with an unreadable
\* file, in which a group was found and its loser deleted
C12_Witness ==
    /\ pc = "done" /\ hash_method = "metadata" /\ action = "delete"
    /\ \E f \in ScanSet : Unreadable(f)
    /\ summary.error_files = 1
    /\ Len(original_duplicates) >= 1 /\ processed_count >= 1

\* two scanned files are members of one returned group
SameGroup(f, g) ==
    \E k \in 1..Len(original_duplicates) :
        {PathOf(f), PathOf(g)} \subseteq MemberPaths(original_duplicates[k].files)

\* C13: in content mode two readable files of the scan are in the same
\* returned group exactly when their digests are equal, whatever their names
\* and directories are
C13_ContentByDigest ==
    (hash_method = "content" /\ Grouped) =>
        \A f, g \in ScanSet :
            (f # g /\ ~Unreadable(f) /\ ~Unreadable(g)) =>
                (SameGroup(f, g) <=> f.digest = g.digest)

\* C13 witness: content mode has grouped two byte-identical files that differ
\* in name, grouped two that differ in directory, and kept files of different
\* content apart
C13_Witness ==
    /\ hash_method = "content" /\ Grouped
    /\ \E f, g \in ScanSet :
          /\ f.name # g.name /\ f.dir = g.dir /\ f.digest = g.digest
          /\ SameGroup(f, g)
    /\ \E f, g \in ScanSet :
          /\ f.dir # g.dir /\ f.name = g.name /\ f.digest = g.digest
          /\ SameGroup(f, g)
    /\ \E f, g \in ScanSet : f.digest # g.digest /\ ~SameGroup(f, g)

\* the loser the action loop is about to handle
Current == ActionList(ranked_duplicates)[idx]

\* a file exists at the destination of the move of f
DestExists(f) ==
    \E g \in disk \cup quarantine : PathOf(g) = PathOf(DestOf(f, output_dir))

\* C14: a move whose destination already exists is skipped and flagged: the
\* file at the destination is not replaced, the source stays in the tree and
\* the file is recorded as not moved
C14_NoOverwrite ==
    [][(pc = "act" /\ action = "move" /\ DestExists(Current)) =>
           /\ disk' = disk
           /\ quarantine' = quarantine
           /\ processed_count' = processed_count]_vars

\* C15: when a move run is repeated with the same arguments and nothing else
\* has touched the tree, and no move of the first run raised, the second run
\* finds no group and moves nothing, wherever output_dir lies
C15_SecondRunIdle ==
    (run = 2 /\ failed = <<>>) =>
        /\ original_duplicates = <<>>
        /\ attempts = <<>>
        /\ processed_count = 0

\* the paths of the tree under root_dir
DiskPaths == {PathOf(f) : f \in disk}

\* C16 as stated: after a delete run the tree holds the scanned files minus
\* group size - 1 files of every group, and of the grouped files exactly the
\* keep file of each group
C16_DeleteCount ==
    (action = "delete" /\ pc = "done") =>
        /\ Cardinality(disk) = Len(dicom_files) - summary.total_duplicates
        /\ DiskPaths \cap GroupedPaths = KeepPaths

\* C16 amended: after a delete run the tree holds the scanned files minus the
\* files whose deletion succeeded ('Files Processed'); every keep file and
\* every file outside the groups is still there, and so is every loser whose
\* deletion raised.  When no deletion raised, the count is the scanned files
\* minus group size - 1 per group and of the grouped files exactly the keep
\* files remain
C16_DeleteCountAmended ==
    (action = "delete" /\ pc = "done") =>
        /\ Cardinality(disk) = Len(dicom_files) - summary.files_processed
        /\ KeepPaths \subseteq DiskPaths
        /\ \A f \in ScanSet : PathOf(f) \notin GroupedPaths => f \in disk
        /\ DiskPaths \cap GroupedPaths =
               KeepPaths \cup {PathOf(failed[i]) : i \in 1..Len(failed)}
        /\ failed = <<>> =>
              /\ Cardinality(disk) = Len(dicom_files) - summary.total_duplicates
              /\ DiskPaths \cap GroupedPaths = KeepPaths

\* C16 witness: a finished delete run in which one loser was deleted and the
\* deletion of another raised
C16_Witness ==
    /\ action = "delete" /\ pc = "done"
    /\ processed_count >= 1 /\ Len(failed) >= 1

ScanPaths == {PathOf(f) : f \in ScanSet}

\* C17: a move or delete that raises does not end the loop: when the loop is
\* over every loser of every group has been attempted, and the processed
\* counter (the summary's 'Files Processed') is the number of attempts that
\* did not raise, which is the number of scanned files that left their path
C17_ContinueAfterFailure ==
    action \in {"move", "delete"} =>
        /\ processed_count = Len(attempts) - Len(failed)
        /\ pc \in {"summary", "done"} =>
              /\ AttemptPaths = GroupedPaths \ KeepPaths
              /\ Len(attempts) = SumLen(original_duplicates) - Len(original_duplicates)
              /\ processed_count = Cardinality(ScanPaths \ DiskPaths)
        /\ pc = "done" => summary.files_processed = Len(attempts) - Len(failed)

\* C17 witness: a finished run in which the first attempt raised and a later
\* one succeeded
C17_Witness ==
    /\ pc = "done" /\ action \in {"move", "delete"}
    /\ Len(attempts) >= 2
    /\ failed = <<attempts[1]>>
    /\ summary.files_processed = Len(attempts) - 1

\* C18: with a valid mode and action the run is never cut short: an error on
\* one file while the groups are scored does not make the exception leave
\* process_duplicates before the report and the summary are written
C18_RunCompletes ==
    ValidArguments => pc # "aborted"

\* the losers: the grouped files that are not the head of their ranked group
LoserPaths == GroupedPaths \ KeepPaths

\* C19: under the report action the tree stays as the scan found it, nothing
\* is put into a quarantine and duplicate_dir is not made, no file is handed
\* to a move or a delete, every loser has a row in the report that is not a
\* keep row and carries the action of the run, and 'Files Processed' is 0
C19_ReportOnly ==
    action = "report" =>
        /\ pc # "start" => disk = ScanSet
        /\ quarantine = {}
        /\ ~duplicate_dir_made
        /\ attempts = <<>> /\ failed = <<>> /\ processed_count = 0
        /\ Reported =>
              \A p \in LoserPaths :
                  \E i \in 1..Len(report_rows) :
                      /\ report_rows[i].file_path = p
                      /\ ~report_rows[i].is_best_match
                      /\ report_rows[i].action = "Report"
        /\ pc = "done" => summary.files_processed = 0

\* C19 witness: a finished report run that found two groups
C19_Witness ==
    /\ action = "report" /\ pc = "done"
    /\ Len(original_duplicates) = 2
    /\ Cardinality(LoserPaths) = 2
    /\ summary.total_duplicates = 2

\* the rows of the report that are about file f
RowsOf(f) == {i \in 1..Len(report_rows) : report_rows[i].file_path = PathOf(f)}

\* C20: when the move or the delete of a loser raised, the file is still at
\* its path, its row in the report carries a failure instead of the action of
\* the run, and the summary's 'Error Files' counts it on top of the files
\* whose read raised during grouping
C20_FailureReported ==
    (pc = "done" /\ action \in {"move", "delete"}) =>
        /\ \A i \in 1..Len(failed) :
              /\ failed[i] \in disk
              /\ \A r \in RowsOf(failed[i]) :
                    report_rows[r].action \notin {"Move", "Delete"}
        /\ summary.error_files = Len(error_files) + Len(failed)

----------------------------------------------------------------------------
(* Phases, names and summaries: C21 - C30 *)

DuplicatesPaths ==
    UNION {MemberPaths(duplicates[g].files) : g \in 1..Len(duplicates)}

RankedPaths ==
    UNION {{ranked_duplicates[g].files[i].path :
               i \in 1..Len(ranked_duplicates[g].files)} :
              g \in 1..Len(ranked_duplicates)}

ErroredPaths == {PathOf(error_files[i]) : i \in 1..Len(error_files)}

\* how far the file at path p has come: 0 unseen, 1 discovered, 2 grouped,
\* 3 ranked, 4 actioned
StageOf(p) ==
    IF p \in AttemptPaths THEN 4
    ELSE IF p \in RankedPaths THEN 3
    ELSE IF p \in DuplicatesPaths THEN 2
    ELSE IF p \in ScanPaths THEN 1
    ELSE 0

\* the grouping of every scanned file is over
AllGrouped ==
    /\ pc \notin {"start", "group", "patients"}
    /\ ScanPaths = DuplicatesPaths \cup ErroredPaths

\* every group has been ranked
AllRanked == Len(ranked_duplicates) = Len(original_duplicates)

\* the stages of one state are nested and the barriers hold
C21_Barriers ==
    /\ AttemptPaths \subseteq RankedPaths
    /\ RankedPaths \subseteq DuplicatesPaths
    /\ DuplicatesPaths \subseteq ScanPaths
    /\ ErroredPaths \subseteq ScanPaths
    /\ ErroredPaths \cap DuplicatesPaths = {}
    /\ ErroredPaths \cap RankedPaths = {}
    /\ (pc = "rank" \/ ranked_duplicates # <<>>) => AllGrouped
    /\ attempts # <<>> => (AllRanked /\ AttemptPaths \cap KeepPaths = {})

\* no file goes back to an earlier stage, an errored file stays errored
C21_Forward ==
    \A f \in Tree :
        /\ StageOf(PathOf(f))' >= StageOf(PathOf(f))
        /\ PathOf(f) \in ErroredPaths => PathOf(f) \in ErroredPaths'

\* C21: every file goes discovered, grouped, ranked, actioned and never back;
\* only losers are actioned; a file whose read raised during grouping is
\* errored for good and is never grouped or ranked; no group is ranked before
\* every scanned file is grouped or errored, and no file is moved or deleted
\* before every group is ranked
C21_FileStateMachine ==
    []C21_Barriers /\ [][C21_Forward]_vars

\* C21 witness: the action loop of a delete run is over: one file is errored,
\* the keep file of a group is ranked and its loser is actioned
C21_Witness ==
    /\ pc = "summary" /\ action = "delete"
    /\ \E p \in ErroredPaths : StageOf(p) = 1
    /\ \E p \in KeepPaths : StageOf(p) = 3
    /\ \E p \in LoserPaths : StageOf(p) = 4

\* the number of digits that end b
RECURSIVE TrailingDigits(_)
TrailingDigits(b) ==
    IF b # <<>> /\ b[Len(b)] \in Digit
    THEN 1 + TrailingDigits(SubSeq(b, 1, Len(b) - 1))
    ELSE 0

\* b ends with a token: a dot followed by digits
EndsWithToken(b) ==
    LET n == TrailingDigits(b)
    IN  n >= 1 /\ Len(b) > n /\ b[Len(b) - n] = "."

\* b without the token that ends it
DropToken(b) == SubSeq(b, 1, Len(b) - TrailingDigits(b) - 1)

\* the number of tokens that end b, one after the other
RECURSIVE TrailingTokens(_)
TrailingTokens(b) ==
    IF EndsWithToken(b) THEN 1 + TrailingTokens(DropToken(b)) ELSE 0

\* a name that ends in `.dcm`, without that extension
DropExt(name) == SubSeq(name, 1, Len(name) - Len(DCM))

\* C22: the suffix count in the score of a ranked file is the number of
\* `.<digits>` tokens that end its name once the extension is removed; tokens
\* elsewhere in the name are not counted
C22_TrailingSuffixCount ==
    \A g \in 1..Len(ranked_duplicates) :
        \A i \in 1..Len(ranked_duplicates[g].files) :
            LET info == ranked_duplicates[g].files[i]
            IN  info.suffix_count = TrailingTokens(DropExt(info.file.name))

\* b without its trailing `.<digits>` tokens
RECURSIVE StripTokens(_)
StripTokens(b) == IF EndsWithToken(b) THEN StripTokens(DropToken(b)) ELSE b

\* b without the dots that end it
RECURSIVE StripDots(_)
StripDots(b) ==
    IF b # <<>> /\ b[Len(b)] = "." THEN StripDots(SubSeq(b, 1, Len(b) - 1)) ELSE b

\* b without its trailing tokens of one or more dots followed by digits
RECURSIVE StripDottedTokens(_)
StripDottedTokens(b) ==
    IF EndsWithToken(b) THEN StripDottedTokens(StripDots(DropToken(b))) ELSE b

\* the groups of the filename mode are those of the stripping function strip:
\* the key of a file is its stripped name and two scanned files are in one
\* returned group exactly when their stripped names are equal
FilenameGroupsBy(strip(_)) ==
    (hash_method = "filename" /\ Grouped) =>
        /\ \A g \in 1..Len(duplicates) : \A i \in 1..Len(duplicates[g].files) :
              duplicates[g].key = strip(DropExt(duplicates[g].files[i].name))
        /\ \A f, g \in ScanSet :
              f # g => (SameGroup(f, g) <=>
                           strip(DropExt(f.name)) = strip(DropExt(g.name)))

\* C23 as stated: the filename mode keys a file by its name without the
\* extension and without the `.<digits>` tokens that end it, nothing else
\* removed, and groups two files exactly when these stripped names are equal
C23_StrippedName == FilenameGroupsBy(StripTokens)

\* C23 amended: a trailing token is one or more dots followed by digits, so
\* the dots that precede the digits of a token are all removed with it; the
\* key and the groups depend on the file names only
C23_StrippedDottedName == FilenameGroupsBy(StripDottedTokens)

\* C23 witness: the filename mode has grouped, across two folders, a plain
\* name with a name whose trailing token has two dots
C23_Witness ==
    /\ hash_method = "filename" /\ Grouped
    /\ \E f, g \in ScanSet :
          /\ SameGroup(f, g) /\ f.dir # g.dir
          /\ TrailingTokens(DropExt(g.name)) = 0
          /\ StripTokens(DropExt(f.name)) # StripDottedTokens(DropExt(f.name))

\* a result counts as a match when it is neither empty nor the whole name
IsMatch(r, filename) == r # <<>> /\ r # filename

\* the prefix through the `Image <n>` or `Field <n>` token, <<>> without one
TokenPrefix(filename) ==
    IF MatchImage(filename) > 0 THEN SubSeq(filename, 1, MatchImage(filename))
    ELSE IF MatchField(filename) > 0 THEN SubSeq(filename, 1, MatchField(filename))
    ELSE <<>>

\* the text before the first `.<digits>.` run, <<>> without one
BeforeFirstRun(filename) ==
    IF DotDigitsDot(filename) # {}
    THEN SubSeq(filename, 1, Min(DotDigitsDot(filename)) - 1)
    ELSE <<>>

\* the chain of fallbacks, each used when the step before it gave no match
StatedSeries(filename) ==
    IF IsMatch(TokenPrefix(filename), filename) THEN TokenPrefix(filename)
    ELSE IF IsMatch(BeforeFirstRun(filename), filename) THEN BeforeFirstRun(filename)
    ELSE StripDottedTokens(DropExt(filename))

\* C24: the key the pattern mode gives a file is the prefix through its
\* `Image <n>` / `Field <n>` token, else the text before the first `.<digits>.`
\* run, else the stripped name of the filename mode, where a step whose result
\* is empty or the whole file name counts as no match
C24_SeriesFallbacks ==
    hash_method = "pattern" =>
        \A g \in 1..Len(duplicates) : \A i \in 1..Len(duplicates[g].files) :
            duplicates[g].key = StatedSeries(duplicates[g].files[i].name)

\* the `.`-delimited tokens of s
RECURSIVE SplitDots(_)
SplitDots(s) ==
    LET n == RunLenNotDot(s, 1)
    IN  IF n = Len(s) THEN <<s>>
        ELSE <<SubSeq(s, 1, n)>> \o SplitDots(Tail_(s, n + 2))

\* the patient identifier of a file name: its second `.`-delimited token
SecondToken(filename) ==
    LET parts == SplitDots(filename)
    IN  IF Len(parts) > 1 THEN parts[2]
        ELSE <<"u", "n", "k", "n", "o", "w", "n">>

\* the members of entry have one patient identifier and one series key, and
\* the key of the entry is made of the two
PatientSeriesEntry(entry) ==
    LET patient == SecondToken(entry.files[1].name)
        series == extract_series_info(entry.files[1].name)
    IN  /\ entry.key = patient \o <<"_">> \o series
        /\ \A i \in 2..Len(entry.files) :
              /\ SecondToken(entry.files[i].name) = patient
              /\ extract_series_info(entry.files[i].name) = series

\* C25: in the advanced mode every group, before and after the size filter,
\* is keyed patient identifier, `_`, series key, its members share both, and
\* two scanned files with different patient identifiers are never in one
\* returned group
C25_PatientScoped ==
    hash_method = "advanced" =>
        /\ \A g \in 1..Len(duplicates) : PatientSeriesEntry(duplicates[g])
        /\ \A g \in 1..Len(original_duplicates) :
              PatientSeriesEntry(original_duplicates[g])
        /\ Grouped =>
              \A f, g \in ScanSet :
                  (f # g /\ SameGroup(f, g)) =>
                      SecondToken(f.name) = SecondToken(g.name)

\* C25 witness: the advanced mode has filed two files of one series key
\* under two keys because their patient identifiers differ
C25_Witness ==
    /\ hash_method = "advanced" /\ Grouped
    /\ Len(duplicates) = 2
    /\ \E f, g \in ScanSet :
          /\ extract_series_info(f.name) = extract_series_info(g.name)
          /\ SecondToken(f.name) # SecondToken(g.name)
          /\ ~SameGroup(f, g)

\* C26: when a run is cancelled inside the grouping, ranking or action loop,
\* the summary with the counters collected so far is still written
C26_SummaryFlushed ==
    pc = "cancelled" => summary # <<>>

\* f lies directly in <root>/<patient>/CT/<date>/
InCTDate(dir) == Len(dir) = 4 /\ dir[1] = "root" /\ dir[3] = "CT"

\* the files of the groups found so far in a run of process_ct_duplicates
CTGrouped ==
    UNION {{e.files[i].file : i \in 1..Len(e.files)} :
              e \in {ranked_duplicates[k] : k \in 1..Len(ranked_duplicates)}}

C27_Groups ==
    /\ \A k \in 1..Len(ranked_duplicates) :
          \A i, j \in 1..Len(ranked_duplicates[k].files) :
             /\ InCTDate(ranked_duplicates[k].files[i].file.dir)
             /\ ranked_duplicates[k].files[i].file.dir
                   = ranked_duplicates[k].files[j].file.dir
    /\ \A k \in 1..Len(duplicates) :
          \A i, j \in 1..Len(duplicates[k].files) :
             /\ InCTDate(duplicates[k].files[i].dir)
             /\ duplicates[k].files[i].dir = duplicates[k].files[j].dir

C27_Touched ==
    /\ \A i \in 1..Len(report_rows) : InCTDate(report_rows[i].file_path[1])
    /\ \A i \in 1..Len(attempts) : InCTDate(attempts[i].dir)

C27_Frame == \A f \in disk : ~InCTDate(f.dir) => f \in disk'

\* C27: process_ct_duplicates groups only files that lie directly in a CT
\* date folder, all files of a group lie in the same date folder of the same
\* patient, every reported, moved or deleted file lies in a CT date folder,
\* and no step removes or changes a file that lies anywhere else
C27_CTOnly == [](C27_Groups /\ C27_Touched) /\ [][C27_Frame]_vars

\* a finished run that moved or deleted a CT duplicate while a pair of
\* equally named CBCT files was in the tree
C27_Witness ==
    /\ pc = "done"
    /\ ActsOnFiles(action)
    /\ processed_count >= 1
    /\ FD \in disk
    /\ FE \in disk
    /\ CTGrouped # {}

\* the place of f in the enumeration of its date folder
PlaceIn(files, f) == CHOOSE i \in 1..Len(files) : files[i] = f

\* the kept file of a ranked group has the least byte size of the group, and
\* is the first such member in the enumeration of the date folder
KeepsSmallest(e) ==
    LET keep == e.files[1].file
    IN  /\ \A i \in 1..Len(e.files) : keep.size <= e.files[i].file.size
        /\ (dicom_files # <<>> /\ Head(dicom_files).dir = keep.dir) =>
               \A i \in 1..Len(e.files) :
                   e.files[i].file.size = keep.size =>
                       PlaceIn(dicom_files, keep)
                           <= PlaceIn(dicom_files, e.files[i].file)

\* C28: in process_ct_duplicates the kept file of every duplicate group is a
\* member of minimum byte size, the first of them in enumeration order, also
\* when the size of some member cannot be read
C28_KeepSmallest ==
    \A k \in 1..Len(ranked_duplicates) : KeepsSmallest(ranked_duplicates[k])

\* the same, for the groups in which every size could be read
C28_KeepSmallestReadable ==
    \A k \in 1..Len(ranked_duplicates) :
        (\A i \in 1..Len(ranked_duplicates[k].files) :
              ~ranked_duplicates[k].files[i].size_failed)
            => KeepsSmallest(ranked_duplicates[k])

\* the groups as find_duplicate_files found them in the scanned files
GroupsAtGrouping == find_duplicate_files(dicom_files, hash_method)

\* C29: the summary that process_duplicates returns satisfies
\* Total Scan Files = Duplicate Groups + Total Duplicates, Files To Keep =
\* Duplicate Groups, 0 <= Files Processed <= Total Duplicates, Files Processed
\* = 0 under report, Files Processed = Total Duplicates under move or delete
\* exactly when no attempt failed, and its counters are those of the groups
\* found at grouping time, whatever was moved or deleted afterwards
C29_SummaryInvariants ==
    pc = "done" =>
        /\ summary.total_scan_files
               = summary.duplicate_groups + summary.total_duplicates
        /\ summary.files_to_keep = summary.duplicate_groups
        /\ 0 <= summary.files_processed
        /\ summary.files_processed <= summary.total_duplicates
        /\ action = "report" => summary.files_processed = 0
        /\ action \in {"move", "delete"} =>
               (summary.files_processed = summary.total_duplicates
                    <=> failed = <<>>)
        /\ summary.duplicate_groups = Len(GroupsAtGrouping)
        /\ summary.total_scan_files = SumLen(GroupsAtGrouping)
        /\ summary.total_duplicates
               = SumLen(GroupsAtGrouping) - Len(GroupsAtGrouping)

\* a finished move or delete run with two groups in which one attempt failed
\* and another removed its file from the tree
C29_Witness ==
    /\ pc = "done"
    /\ action \in {"move", "delete"}
    /\ summary.duplicate_groups = 2
    /\ failed # <<>>
    /\ summary.files_processed >= 1
    /\ summary.files_processed < summary.total_duplicates
    /\ Cardinality(disk) < Len(dicom_files)

\* the groups of d as sets of paths
GroupSets(d) == {MemberPaths(d[k].files) : k \in 1..Len(d)}

\* what the pattern mode finds in the files this run scanned, before and
\* after the size filter
PatternAll ==
    GroupSets(GroupAll([duplicates |-> <<>>, error_files |-> <<>>],
                       dicom_files, "pattern").duplicates)

PatternFound == GroupSets(find_duplicate_files(dicom_files, "pattern"))

\* the series key of every scanned file determines its patient token
SeriesDeterminesPatient ==
    \A f, g \in ScanSet :
        extract_series_info(f.name) = extract_series_info(g.name) =>
            patient_id_of(f.name) = patient_id_of(g.name)

\* C30: every group of the advanced mode, before and after the size filter,
\* is a subset of one group the pattern mode makes of the same files; two
\* files the pattern mode keeps apart are never grouped by the advanced mode;
\* and the two modes find the same groups when the series key of every file
\* determines its patient token
C30_AdvancedRefinesPattern ==
    (hash_method = "advanced" /\ Grouped) =>
        LET all == PatternAll
            found == PatternFound
        IN  /\ \A a \in GroupSets(duplicates) : \E p \in all : a \subseteq p
            /\ \A a \in GroupSets(original_duplicates) :
                  \E p \in found : a \subseteq p
            /\ \A f, g \in ScanSet :
                  (f # g /\ SameGroup(f, g)) =>
                      \E p \in found : {PathOf(f), PathOf(g)} \subseteq p
            /\ SeriesDeterminesPatient =>
                  /\ GroupSets(duplicates) = all
                  /\ GroupSets(original_duplicates) = found

\* the advanced mode has returned a group of two files whose names differ
C30_Witness ==
    /\ hash_method = "advanced" /\ Grouped
    /\ SeriesDeterminesPatient
    /\ \E f, g \in ScanSet :
          /\ f.name # g.name
          /\ SameGroup(f, g)
          /\ MemberPaths(original_duplicates[1].files) \in PatternFound

====
